---- MODULE Spec2Model ----
(***************************************************************************)
(* Model of kudu/master/master_service.cc: the RPC handlers of             *)
(* MasterServiceImpl, run by concurrent service threads against the        *)
(* catalog manager's leader lock, the tablet-server registry (TSManager),  *)
(* the catalog, the certificate authority and the token signer.            *)
(*                                                                         *)
(* A handler is split where it touches shared state: the construction of   *)
(* ScopedLeaderSharedLock, the handler body (TSHeartbeat in two steps:     *)
(* up to the registry call, and from the soft-state update on), and the    *)
(* return, where the scoped lock's destructor runs.                        *)
(***************************************************************************)
EXTENDS Integers, Sequences, FiniteSets, TLC

\* ------------------------------------------------------------- bounds
AllThreads == {"t1", "t2"}
\* The service threads of the specification Spec.
Threads == {"t1"}
Workers == {"w1"}
\* A ts_instance the registry rejects (no permanent uuid).
BadInstance == "bad"
Instances == Workers \cup {BadInstance}
Registrations == {"regA", "regB"}
MaxTime == 1
MaxLive == 1
MaxKeys == 1
MaxIds == 2
Tables == {"T1"}
Tablets == {"tb1", "tb2"}
\* The one tablet a tablet report can make known to the catalog.
ReportedTablet == "tb1"

TableOps == {"CreateTable", "IsCreateTableDone", "DeleteTable", "AlterTable",
             "IsAlterTableDone", "ListTables", "GetTableLocations",
             "GetTableSchema"}
\* The requests a specification offers the handlers.
FullDomain ==
  [calls |-> TableOps \cup {"GetTabletLocations", "TSHeartbeat",
                            "GetMasterRegistration", "ConnectToMaster"},
   ids |-> Instances,
   regs |-> Registrations \cup {"none"},
   lives |-> 0..MaxLive,
   reports |-> {"none", "good", "bad"},
   csrs |-> {"none", "good", "bad"},
   wms |-> -1..MaxKeys,
   tables |-> Tables,
   faults |-> {"none", "untyped"},
   idlists |-> UNION {[1..n -> Tablets] : n \in 0..MaxIds},
   authns |-> {"token", "kerberos"}]

\* Fewer requests, for the specification of two concurrent service threads.
LeanDomain ==
  [calls |-> TableOps \cup {"GetTabletLocations", "TSHeartbeat",
                            "GetMasterRegistration", "ConnectToMaster"},
   ids |-> Instances,
   regs |-> {"regA", "none"},
   lives |-> {MaxLive},
   reports |-> {"none", "good", "bad"},
   csrs |-> {"none", "good", "bad"},
   wms |-> {-1, 0},
   tables |-> Tables,
   faults |-> {"none", "untyped"},
   idlists |-> {<<"tb1">>},
   authns |-> {"token", "kerberos"}]

LeaderGated == TableOps \cup {"GetTabletLocations"}
InitGated == {"TSHeartbeat", "GetMasterRegistration", "ConnectToMaster"}
Gated == LeaderGated \cup InitGated

VARIABLES
  initialized,    \* the catalog manager is running
  role,           \* catalog_manager()->Role(): the consensus role
  leader,         \* the leadership the leader lock protects
  writer,         \* the leadership transition: "none", "waiting", "held"
  readers,        \* threads holding the leader lock in shared mode
  now,            \* MonoTime::Now()
  registry,       \* TSManager: the set of TSDescriptors
  tables,         \* catalog: the tables
  tablets,        \* catalog: the tablets with known locations
  tsk_count,      \* token verifier: keys with sequence numbers 1..tsk_count
  propagate_tsk,  \* FLAGS_master_non_leader_masters_propagate_tsk
  pc,             \* per thread: "idle", "locked", "hb_soft", "ret", "done"
  call,           \* per thread: the RPC being handled
  lease,          \* per thread: what ScopedLeaderSharedLock l recorded
  ts_desc,        \* per thread: the shared_ptr<TSDescriptor> (its instance id)
  req,            \* per thread: the request fields read so far, and whether
                  \* the registry knew the instance when it was called
  resp,           \* per thread: the response
  invoked         \* per thread: the collaborators' operations called

vars == <<initialized, role, leader, writer, readers, now, registry, tables,
          tablets, tsk_count, propagate_tsk, pc, call, lease, ts_desc, req,
          resp, invoked>>

env == <<initialized, role, leader, writer, now, tsk_count, propagate_tsk>>
stores == <<registry, tables, tablets>>

\* ------------------------------------------------------------- values
NoLease == [held |-> FALSE, init |-> FALSE, leader |-> FALSE]

NoReq == [ts |-> "none", reg |-> "none", known |-> FALSE, live |-> 0, report |-> "none",
          csr |-> "none", wm |-> -1, authn |-> "none", table |-> "none",
          fault |-> "none", ids |-> <<>>]

EmptyResp == [sent |-> 0, transport |-> "none", error |-> "none",
              status |-> "none",
              instance |-> FALSE, leader_master |-> "unset",
              needs_reregister |-> FALSE, needs_full |-> "unset",
              tablet_report |-> FALSE, signed_cert |-> FALSE,
              ca_cert |-> FALSE, tsks |-> {},
              role |-> "unset", master_addrs |-> FALSE,
              authn_token |-> FALSE, registration |-> FALSE,
              payload |-> FALSE, locations |-> <<>>, errors |-> <<>>,
              servers |-> {}, masters |-> FALSE,
              deprecated_error |-> FALSE]

\* rpc->RespondSuccess()
RespondSuccess(r) == [r EXCEPT !.sent = @ + 1, !.transport = "success"]

\* rpc->RespondFailure(s)
RespondFailure(r, s) ==
  [r EXCEPT !.sent = @ + 1, !.transport = "failure", !.status = s]

\* ------------------------------------------------ the leader lock (l)
\* l.CheckIsInitializedOrRespond(resp, rpc): the response it sends when the
\* catalog manager is not running.
RespondNotInitialized(r) ==
  RespondSuccess([r EXCEPT !.error = "CATALOG_MANAGER_NOT_INITIALIZED",
                           !.status = "ServiceUnavailable"])

\* l.CheckIsInitializedAndIsLeaderOrRespond(resp, rpc): the response it sends
\* when the catalog manager runs but is not the leader.
RespondNotLeader(r) ==
  RespondSuccess([r EXCEPT !.error = "NOT_THE_LEADER",
                           !.status = "IllegalState"])

CheckIsInitialized(l) == l.init
CheckIsInitializedAndIsLeader(l) == l.init /\ l.leader

\* The response of a failed InitializedAndLeader gate.
LeaderGateResponse(l, r) ==
  IF ~l.init THEN RespondNotInitialized(r) ELSE RespondNotLeader(r)

\* ------------------------------------------------------ the registry
Descs(reg_set, id) == {d \in reg_set : d.id = id}
Registered(id) == Descs(registry, id) # {}
DescOf(reg_set, id) == CHOOSE d \in reg_set : d.id = id

\* TSManager::RegisterTS: the status it returns.
RegisterTSStatus(id) == IF id = BadInstance THEN "InvalidArgument" ELSE "OK"

\* A registry that keeps the descriptor an instance already has.
RegisterTSKeepsFirst(reg_set, id, payload, t) ==
  IF RegisterTSStatus(id) # "OK" \/ Descs(reg_set, id) # {} THEN reg_set
  ELSE reg_set \cup {[id |-> id, reg |-> payload, hb |-> t, live |-> 0]}

\* TSManager::RegisterTS: the descriptor of id is replaced.
RegisterTS(reg_set, id, payload, t) ==
  IF RegisterTSStatus(id) # "OK" THEN reg_set
  ELSE (reg_set \ Descs(reg_set, id))
         \cup {[id |-> id, reg |-> payload, hb |-> t, live |-> 0]}

\* A registry whose lookup finds no descriptor.
LookupTSNeverFound(reg_set, id) ==
  IF id = BadInstance THEN "InvalidArgument" ELSE "NotFound"

\* TSManager::LookupTS
LookupTS(reg_set, id) ==
  IF id = BadInstance THEN "InvalidArgument"
  ELSE IF Descs(reg_set, id) = {} THEN "NotFound" ELSE "OK"

\* ts_desc->UpdateHeartbeatTime(); ts_desc->set_num_live_replicas(n)
UpdateSoftState(reg_set, id, t, n) ==
  {IF d.id = id THEN [d EXCEPT !.hb = t, !.live = n] ELSE d : d \in reg_set}

\* ------------------------------------------------------ token verifier
\* token_signer()->verifier().ExportKeys(after_sequence_number)
ExportKeys(n, after) == {k \in 1..n : k > after}

\* ------------------------------------------------------------- Init
Init ==
  /\ initialized = FALSE
  /\ role = "FOLLOWER"
  /\ leader = FALSE
  /\ writer = "none"
  /\ readers = {}
  /\ now = 0
  /\ registry = {}
  /\ tables = {}
  /\ tablets = {}
  /\ tsk_count = 0
  /\ propagate_tsk \in BOOLEAN
  /\ pc = [t \in AllThreads |-> "idle"]
  /\ call = [t \in AllThreads |-> "none"]
  /\ lease = [t \in AllThreads |-> NoLease]
  /\ ts_desc = [t \in AllThreads |-> "none"]
  /\ req = [t \in AllThreads |-> NoReq]
  /\ resp = [t \in AllThreads |-> EmptyResp]
  /\ invoked = [t \in AllThreads |-> {}]

\* ------------------------------------------------------ environment
\* The catalog manager finishes starting.
CatalogInit ==
  /\ ~initialized
  /\ initialized' = TRUE
  /\ UNCHANGED <<role, leader, writer, readers, now, tsk_count, propagate_tsk,
                 stores, pc, call, lease, ts_desc, req, resp, invoked>>

\* Consensus changes this master's role; the catalog manager then needs the
\* leader lock in exclusive mode to follow.
ElectionChange ==
  /\ initialized
  /\ writer = "none"
  /\ role' = IF role = "LEADER" THEN "FOLLOWER" ELSE "LEADER"
  /\ writer' = "waiting"
  /\ UNCHANGED <<initialized, leader, readers, now, tsk_count, propagate_tsk,
                 stores, pc, call, lease, ts_desc, req, resp, invoked>>

\* The exclusive acquisition: it waits for the shared holders.
TransitionAcquire ==
  /\ writer = "waiting"
  /\ readers = {}
  /\ writer' = "held"
  /\ UNCHANGED <<initialized, role, leader, readers, now, tsk_count,
                 propagate_tsk, stores, pc, call, lease, ts_desc, req, resp,
                 invoked>>

\* The transition completes under the exclusive lock and releases it.
TransitionComplete ==
  /\ writer = "held"
  /\ leader' = (role = "LEADER")
  /\ writer' = "none"
  /\ UNCHANGED <<initialized, role, readers, now, tsk_count, propagate_tsk,
                 stores, pc, call, lease, ts_desc, req, resp, invoked>>

Tick ==
  /\ now < MaxTime
  /\ now' = now + 1
  /\ UNCHANGED <<initialized, role, leader, writer, readers, tsk_count,
                 propagate_tsk, stores, pc, call, lease, ts_desc, req, resp,
                 invoked>>

\* The token signer rotates in a new signing key.
RotateKey ==
  /\ tsk_count < MaxKeys
  /\ tsk_count' = tsk_count + 1
  /\ UNCHANGED <<initialized, role, leader, writer, readers, now,
                 propagate_tsk, stores, pc, call, lease, ts_desc, req, resp,
                 invoked>>

\* ------------------------------------------------------ lock scope
\* CatalogManager::ScopedLeaderSharedLock l(server_->catalog_manager()):
\* the shared acquisition, recording the catalog and leader status.
ScopedLeaderSharedLock ==
  [held |-> TRUE, init |-> initialized, leader |-> initialized /\ leader]

\* A gated handler starts: `l` is constructed first.
\* A thread between two calls: "idle" before its first, "done" after one.
Free(t) == pc[t] \in {"idle", "done"}

Begin(t, c) ==
  /\ Free(t)
  /\ c \in Gated
  /\ writer = "none"
  /\ readers' = readers \cup {t}
  /\ lease' = [lease EXCEPT ![t] = ScopedLeaderSharedLock]
  /\ call' = [call EXCEPT ![t] = c]
  /\ pc' = [pc EXCEPT ![t] = "locked"]
  /\ resp' = [resp EXCEPT ![t] =
       IF c = "GetMasterRegistration"
       THEN [EmptyResp EXCEPT !.instance = TRUE] ELSE EmptyResp]
  /\ UNCHANGED <<env, stores, ts_desc, req, invoked>>

\* The lock kept by a handler that returns after RespondFailure.
HeldAfterFailureReturn(t) ==
  IF resp[t].transport = "failure" THEN readers ELSE readers \ {t}

\* The locks a returning handler still holds once the destructors of its
\* locals have run.
HeldAfterReturn(t) == readers \ {t}

\* The handler returns: its locals (l, ts_desc) go out of scope, and the RPC
\* layer has the response.
Return(t) ==
  /\ pc[t] = "ret"
  /\ readers' = HeldAfterReturn(t)
  /\ pc' = [pc EXCEPT ![t] = "done"]
  /\ call' = [call EXCEPT ![t] = "none"]
  /\ lease' = [lease EXCEPT ![t] = NoLease]
  /\ ts_desc' = [ts_desc EXCEPT ![t] = "none"]
  /\ req' = [req EXCEPT ![t] = NoReq]
  /\ resp' = [resp EXCEPT ![t] = EmptyResp]
  /\ invoked' = [invoked EXCEPT ![t] = {}]
  /\ UNCHANGED <<env, stores>>


\* ------------------------------------------------------ TSHeartbeat
\* TSHeartbeat without its gate.
HeartbeatGateSkipped(l) == TRUE

\* Line 137: the gate of TSHeartbeat.
HeartbeatGate(l) == CheckIsInitialized(l)

\* Line 148: whether the tablet server is registered (or only looked up).
RegistersTS(payload) == payload # "none"

\* The full tablet report asked of an unknown tablet server by any master.
ReregisterResponseAlwaysFull(r, is_leader_master) ==
  [r EXCEPT !.needs_reregister = TRUE, !.needs_full = TRUE]

\* Lines 165-169: the answer to a tablet server the registry does not know.
ReregisterResponse(r, is_leader_master) ==
  [r EXCEPT !.needs_reregister = TRUE, !.needs_full = is_leader_master]

\* Lines 136-180: the gate, the fields all later responses carry, and the
\* registration or lookup of the tablet server. The result is the thread's
\* next pc, response, descriptor, registry and calls made.
HeartbeatResolve(l, r0, id, payload, reg_set, t) ==
  IF ~HeartbeatGate(l)
  THEN [pc |-> "ret", resp |-> RespondNotInitialized(r0), desc |-> "none",
        registry |-> reg_set, invoked |-> {}]
  ELSE
    LET is_leader_master == l.leader
        r == [r0 EXCEPT !.instance = TRUE,
                        !.leader_master = is_leader_master]
    IN IF RegistersTS(payload)
       THEN IF RegisterTSStatus(id) # "OK"
            THEN [pc |-> "ret",
                  resp |-> RespondFailure(r, RegisterTSStatus(id)),
                  desc |-> "none",
                  registry |-> RegisterTS(reg_set, id, payload, t),
                  invoked |-> {"RegisterTS"}]
            ELSE [pc |-> "hb_soft", resp |-> r, desc |-> id,
                  registry |-> RegisterTS(reg_set, id, payload, t),
                  invoked |-> {"RegisterTS"}]
       ELSE LET s == LookupTS(reg_set, id)
            IN IF s = "NotFound"
               THEN [pc |-> "ret",
                     resp |-> RespondSuccess(
                                ReregisterResponse(r, is_leader_master)),
                     desc |-> "none", registry |-> reg_set,
                     invoked |-> {"LookupTS"}]
               ELSE IF s # "OK"
               THEN [pc |-> "ret",
                     resp |-> RespondFailure(r, "Unable to lookup tserver"),
                     desc |-> "none", registry |-> reg_set,
                     invoked |-> {"LookupTS"}]
               ELSE [pc |-> "hb_soft", resp |-> r, desc |-> id,
                     registry |-> reg_set, invoked |-> {"LookupTS"}]

TSHeartbeatResolve(t, D) ==
  /\ pc[t] = "locked"
  /\ call[t] = "TSHeartbeat"
  /\ \E id \in D.ids, payload \in D.regs :
       LET o == HeartbeatResolve(lease[t], resp[t], id, payload, registry, now)
       IN /\ pc' = [pc EXCEPT ![t] = o.pc]
          /\ resp' = [resp EXCEPT ![t] = o.resp]
          /\ ts_desc' = [ts_desc EXCEPT ![t] = o.desc]
          /\ registry' = o.registry
          /\ invoked' = [invoked EXCEPT ![t] = o.invoked]
          /\ req' = [req EXCEPT ![t] =
               IF HeartbeatGate(lease[t])
               THEN [@ EXCEPT !.ts = id, !.reg = payload,
                              !.known = (Descs(registry, id) # {})]
               ELSE @]
  /\ UNCHANGED <<env, readers, tables, tablets, call, lease>>

\* CatalogManager::ProcessTabletReport
ProcessTabletReportStatus(report) ==
  IF report = "bad" THEN "Corruption" ELSE "OK"
ProcessTabletReport(known, report) ==
  IF report = "good" THEN known \cup {ReportedTablet} ELSE known

\* MasterCertAuthority::SignServerCSR
SignServerCSRStatus(csr) == IF csr = "bad" THEN "InvalidArgument" ELSE "OK"

\* The tablet report handled whatever the role.
HandlesTabletReportAnyRole(is_leader_master, report) == report # "none"

\* Line 187: is_leader_master && req->has_tablet_report()
HandlesTabletReport(is_leader_master, report) ==
  is_leader_master /\ report # "none"

\* Line 197: is_leader_master && req->has_csr_der()
SignsCSR(is_leader_master, csr) == is_leader_master /\ csr # "none"

\* Keys exported by any master that is given a watermark.
ExportsKeysAnyMaster(is_leader_master, flag, wm) == wm >= 0

\* Lines 213-215
ExportsKeys(is_leader_master, flag, wm) ==
  (is_leader_master \/ flag) /\ wm >= 0

\* The steps only leaders take without the returns of lines 192 and 206:
\* every step runs, and a failure is answered at the end.
HeartbeatLeaderStepsNoReturn(l, r, report, csr, wm, known, nkeys, flag) ==
  LET is_leader_master == l.leader
      do_report == HandlesTabletReport(is_leader_master, report)
      do_csr == SignsCSR(is_leader_master, csr)
      do_tsk == ExportsKeys(is_leader_master, flag, wm)
      report_ok == ~do_report \/ ProcessTabletReportStatus(report) = "OK"
      csr_ok == ~do_csr \/ SignServerCSRStatus(csr) = "OK"
      r1 == [r EXCEPT !.tablet_report = do_report /\ report_ok,
                      !.signed_cert = do_csr /\ csr_ok,
                      !.ca_cert = do_csr /\ csr_ok,
                      !.tsks = IF do_tsk THEN ExportKeys(nkeys, wm) ELSE @]
  IN [resp |-> IF ~report_ok
               THEN RespondFailure(r1, "Failed to process tablet report")
               ELSE IF ~csr_ok THEN RespondFailure(r1, "invalid CSR")
               ELSE RespondSuccess(r1),
      tablets |-> IF do_report THEN ProcessTabletReport(known, report)
                  ELSE known,
      invoked |-> (IF do_report THEN {"ProcessTabletReport"} ELSE {})
                    \cup (IF do_csr THEN {"SignServerCSR"} ELSE {})
                    \cup (IF do_tsk THEN {"ExportKeys"} ELSE {})]

\* Lines 186-223: the steps only leaders take, and the response.
HeartbeatLeaderSteps(l, r, report, csr, wm, known, nkeys, flag) ==
  LET is_leader_master == l.leader
      do_report == HandlesTabletReport(is_leader_master, report)
      do_csr == SignsCSR(is_leader_master, csr)
      do_tsk == ExportsKeys(is_leader_master, flag, wm)
  IN IF do_report /\ ProcessTabletReportStatus(report) # "OK"
     THEN [resp |-> RespondFailure(r, "Failed to process tablet report"),
           tablets |-> ProcessTabletReport(known, report),
           invoked |-> {"ProcessTabletReport"}]
     ELSE
       LET r1 == IF do_report THEN [r EXCEPT !.tablet_report = TRUE] ELSE r
           k1 == IF do_report THEN ProcessTabletReport(known, report) ELSE known
           i1 == IF do_report THEN {"ProcessTabletReport"} ELSE {}
       IN IF do_csr /\ SignServerCSRStatus(csr) # "OK"
          THEN [resp |-> RespondFailure(r1, "invalid CSR"), tablets |-> k1,
                invoked |-> i1 \cup {"SignServerCSR"}]
          ELSE
            LET r2 == IF do_csr
                      THEN [r1 EXCEPT !.signed_cert = TRUE, !.ca_cert = TRUE]
                      ELSE r1
                i2 == IF do_csr THEN i1 \cup {"SignServerCSR"} ELSE i1
                r3 == IF do_tsk
                      THEN [r2 EXCEPT !.tsks = ExportKeys(nkeys, wm)] ELSE r2
                i3 == IF do_tsk THEN i2 \cup {"ExportKeys"} ELSE i2
            IN [resp |-> RespondSuccess(r3), tablets |-> k1, invoked |-> i3]

\* The soft state left as it was.
HeartbeatSoftStateSkipped(reg_set, id, t, n) == reg_set

\* The soft state written to every descriptor.
HeartbeatSoftStateAll(reg_set, id, t, n) ==
  {[d EXCEPT !.hb = t, !.live = n] : d \in reg_set}

\* The soft state without line 184.
HeartbeatTimeOnly(reg_set, id, t, n) ==
  {IF d.id = id THEN [d EXCEPT !.hb = t] ELSE d : d \in reg_set}

\* Lines 182-184: the soft state of the resolved descriptor.
HeartbeatSoftState(reg_set, id, t, n) == UpdateSoftState(reg_set, id, t, n)

\* The request fields lines 186-217 read: the && of lines 187, 197 and 213
\* reads a field only when its left operand holds.
FieldsRead(q, l, flag, n, report, csr, wm) ==
  [q EXCEPT !.live = n,
            !.report = IF l.leader THEN report ELSE @,
            !.csr = IF l.leader /\ ProcessTabletReportStatus(report) = "OK"
                    THEN csr ELSE @,
            !.wm = IF /\ l.leader \/ flag
                      /\ l.leader => /\ ProcessTabletReportStatus(report) = "OK"
                                     /\ SignServerCSRStatus(csr) = "OK"
                   THEN wm ELSE @]

TSHeartbeatFinish(t, D) ==
  /\ pc[t] = "hb_soft"
  /\ \E n \in D.lives, report \in D.reports, csr \in D.csrs, wm \in D.wms :
       LET o == HeartbeatLeaderSteps(lease[t], resp[t], report, csr, wm,
                                     tablets, tsk_count, propagate_tsk)
       IN /\ registry' = HeartbeatSoftState(registry, ts_desc[t], now, n)
          /\ tablets' = o.tablets
          /\ resp' = [resp EXCEPT ![t] = o.resp]
          /\ invoked' = [invoked EXCEPT ![t] = @ \cup o.invoked]
          /\ req' = [req EXCEPT ![t] =
               FieldsRead(@, lease[t], propagate_tsk, n, report, csr, wm)]
  /\ pc' = [pc EXCEPT ![t] = "ret"]
  /\ UNCHANGED <<env, readers, tables, call, lease, ts_desc>>

\* ------------------------------------------------------ table calls
\* The catalog manager's table operations: the status returned, the error
\* code the delegate itself wrote into the response, and the tables left.
CatalogOp(op, table, fault, tbls) ==
  IF fault = "untyped"
  THEN [status |-> "ServiceUnavailable", error |-> "none", tables |-> tbls]
  ELSE IF op = "ListTables"
  THEN [status |-> "OK", error |-> "none", tables |-> tbls]
  ELSE IF op = "CreateTable"
  THEN IF table \in tbls
       THEN [status |-> "AlreadyPresent", error |-> "TABLE_ALREADY_PRESENT",
             tables |-> tbls]
       ELSE [status |-> "OK", error |-> "none", tables |-> tbls \cup {table}]
  ELSE IF table \notin tbls
  THEN [status |-> "NotFound", error |-> "TABLE_NOT_FOUND", tables |-> tbls]
  ELSE [status |-> "OK", error |-> "none",
        tables |-> IF op = "DeleteTable" THEN tbls \ {table} ELSE tbls]

\* A normalizer that overwrites the error the delegate set.
CheckRespErrorAlwaysUnknown(s, r) ==
  IF s # "OK"
  THEN [r EXCEPT !.status = s, !.error = "UNKNOWN_ERROR"]
  ELSE r

\* Lines 84-93
CheckRespErrorOrSetUnknown(s, r) ==
  IF s # "OK" /\ r.error = "none"
  THEN [r EXCEPT !.status = s, !.error = "UNKNOWN_ERROR"]
  ELSE r

\* The table calls behind the gate of the heartbeat.
TableGateInitializedOnly(l) == CheckIsInitialized(l)

\* Lines 260, 273, 286, 299, 312, 325, 338, 354 and 230: the gate of the
\* table calls and of GetTabletLocations.
TableGate(l) == CheckIsInitializedAndIsLeader(l)

\* Lines 256-361: one of the eight handlers that delegate to the catalog
\* manager and normalize its error.
TableHandler(l, r0, op, table, fault, tbls) ==
  IF ~TableGate(l)
  THEN [resp |-> LeaderGateResponse(l, r0), tables |-> tbls, invoked |-> {}]
  ELSE
    LET d == CatalogOp(op, table, fault, tbls)
        r == IF d.error # "none"
             THEN [r0 EXCEPT !.error = d.error, !.status = d.status]
             ELSE [r0 EXCEPT !.payload = (d.status = "OK")]
    IN [resp |-> RespondSuccess(CheckRespErrorOrSetUnknown(d.status, r)),
        tables |-> d.tables, invoked |-> {op}]

TableCall(t, D) ==
  /\ pc[t] = "locked"
  /\ call[t] \in TableOps
  /\ \E table \in D.tables, fault \in D.faults :
       LET o == TableHandler(lease[t], resp[t], call[t], table, fault, tables)
       IN /\ resp' = [resp EXCEPT ![t] = o.resp]
          /\ tables' = o.tables
          /\ invoked' = [invoked EXCEPT ![t] = o.invoked]
          /\ req' = [req EXCEPT ![t] =
               IF TableGate(lease[t])
               THEN [@ EXCEPT !.table = table, !.fault = fault] ELSE @]
  /\ pc' = [pc EXCEPT ![t] = "ret"]
  /\ UNCHANGED <<env, readers, registry, tablets, call, lease, ts_desc>>

\* ------------------------------------------------ GetTabletLocations
\* CatalogManager::GetTabletLocations(tablet_id, locs_pb)
GetTabletLocationsStatus(id, known) ==
  IF id \in known THEN "OK" ELSE "NotFound"

\* A loop that ends at the first tablet id the catalog manager rejects.
RECURSIVE LocateTabletsUntilFailure(_, _, _)
LocateTabletsUntilFailure(ids, known, r) ==
  IF ids = <<>> THEN r
  ELSE LET id == Head(ids)
       IN IF GetTabletLocationsStatus(id, known) = "OK"
          THEN LocateTabletsUntilFailure(Tail(ids), known,
                                         [r EXCEPT !.locations = Append(@, id)])
          ELSE [r EXCEPT !.errors = Append(@, id)]

\* Lines 240-251: the loop over req->tablet_ids(), from the response so far.
RECURSIVE LocateTablets(_, _, _)
LocateTablets(ids, known, r) ==
  IF ids = <<>> THEN r
  ELSE LET id == Head(ids)
           r1 == IF GetTabletLocationsStatus(id, known) = "OK"
                 THEN [r EXCEPT !.locations = Append(@, id)]
                 ELSE [r EXCEPT !.errors = Append(@, id)]
       IN LocateTablets(Tail(ids), known, r1)

\* Lines 226-254
TabletLocationsHandler(l, r0, ids, known) ==
  IF ~TableGate(l)
  THEN [resp |-> LeaderGateResponse(l, r0), invoked |-> {}]
  ELSE [resp |-> RespondSuccess(LocateTablets(ids, known, r0)),
        invoked |-> IF ids = <<>> THEN {} ELSE {"GetTabletLocations"}]

GetTabletLocations(t, D) ==
  /\ pc[t] = "locked"
  /\ call[t] = "GetTabletLocations"
  /\ \E ids \in D.idlists :
       LET o == TabletLocationsHandler(lease[t], resp[t], ids, tablets)
       IN /\ resp' = [resp EXCEPT ![t] = o.resp]
          /\ invoked' = [invoked EXCEPT ![t] = o.invoked]
          /\ req' = [req EXCEPT ![t] =
               IF TableGate(lease[t]) THEN [@ EXCEPT !.ids = ids] ELSE @]
  /\ pc' = [pc EXCEPT ![t] = "ret"]
  /\ UNCHANGED <<env, readers, stores, call, lease, ts_desc>>

\* ------------------------------------------------ ungated calls
\* A handler that takes no lock starts, answers and is about to return.
Answer(t, c, r, q) ==
  /\ Free(t)
  /\ pc' = [pc EXCEPT ![t] = "ret"]
  /\ call' = [call EXCEPT ![t] = c]
  /\ resp' = [resp EXCEPT ![t] = r]
  /\ req' = [req EXCEPT ![t] = q]
  /\ UNCHANGED <<env, readers, stores, lease, ts_desc, invoked>>

\* Lines 124-128
Ping(t) == Answer(t, "Ping", RespondSuccess(EmptyResp), NoReq)

\* Entries only for the tablet servers that report live replicas.
ServerEntriesLive(reg_set, t) ==
  {[id |-> d.id, reg |-> d.reg, millis |-> t - d.hb] :
     d \in {x \in reg_set : x.live > 0}}

\* Lines 366-373: one entry per descriptor of GetAllDescriptors.
ServerEntries(reg_set, t) ==
  {[id |-> d.id, reg |-> d.reg, millis |-> t - d.hb] : d \in reg_set}

\* Lines 363-375
ListTabletServers(t) ==
  Answer(t, "ListTabletServers",
         RespondSuccess([EmptyResp EXCEPT
                           !.servers = ServerEntries(registry, now)]),
         NoReq)

\* Lines 377-394; s is the status of Master::ListMasters.
ListMastersResponse(s) ==
  RespondSuccess(IF s # "OK"
                 THEN [EmptyResp EXCEPT !.status = s,
                                        !.error = "UNKNOWN_ERROR",
                                        !.deprecated_error = TRUE]
                 ELSE [EmptyResp EXCEPT !.masters = TRUE])

ListMasters(t, D) ==
  \E fault \in D.faults :
    Answer(t, "ListMasters",
           ListMastersResponse(IF fault = "none" THEN "OK"
                               ELSE "ServiceUnavailable"),
           [NoReq EXCEPT !.fault = fault])

\* ------------------------------------------- GetMasterRegistration
\* GetMasterRegistration and ConnectToMaster behind the gate of the table
\* calls.
InitGateLeader(l) == CheckIsInitializedAndIsLeader(l)

\* Line 403: the gate of GetMasterRegistration and of ConnectToMaster.
InitGate(l) == CheckIsInitialized(l)

\* Lines 396-411; r0 already carries the instance id (line 400), s is the
\* status of Master::GetMasterRegistration and cur_role is Role().
MasterRegistrationHandler(l, r0, s, cur_role) ==
  IF ~InitGate(l) THEN RespondNotInitialized(r0)
  ELSE RespondSuccess(
         [CheckRespErrorOrSetUnknown(s, [r0 EXCEPT !.registration = (s = "OK")])
            EXCEPT !.role = cur_role])

GetMasterRegistration(t, D) ==
  /\ pc[t] = "locked"
  /\ call[t] = "GetMasterRegistration"
  /\ \E fault \in D.faults :
       /\ resp' = [resp EXCEPT ![t] =
            MasterRegistrationHandler(lease[t], @,
              IF fault = "none" THEN "OK" ELSE "ServiceUnavailable", role)]
       /\ req' = [req EXCEPT ![t] =
            IF InitGate(lease[t]) THEN [@ EXCEPT !.fault = fault] ELSE @]
  /\ pc' = [pc EXCEPT ![t] = "ret"]
  /\ UNCHANGED <<env, readers, stores, call, lease, ts_desc, invoked>>

\* ------------------------------------------------- ConnectToMaster
\* TokenSigner::GenerateAuthnToken: it needs a signing key.
GenerateAuthnTokenStatus(nkeys) == IF nkeys = 0 THEN "IllegalState" ELSE "OK"

\* A token for every caller.
WantsTokenAlways(authn) == TRUE

\* Line 446: rpc->remote_user().authenticated_by() != AUTHN_TOKEN
WantsToken(authn) == authn # "token"

\* The failure of GenerateAuthnToken answered with RespondFailure.
TokenResultRespondsFailure(r, s) ==
  IF s # "OK" THEN RespondFailure(r, s) ELSE [r EXCEPT !.authn_token = TRUE]

\* The failure of GenerateAuthnToken written into the response.
TokenResultSurfaced(r, s) ==
  IF s # "OK" THEN [r EXCEPT !.error = "UNKNOWN_ERROR", !.status = s]
  ELSE [r EXCEPT !.authn_token = TRUE]

\* Lines 451-458: the response after GenerateAuthnToken returned s.
TokenResult(r, s) == IF s # "OK" THEN r ELSE [r EXCEPT !.authn_token = TRUE]

\* Lines 413-462
ConnectHandler(l, r0, cur_role, authn, nkeys) ==
  IF ~InitGate(l)
  THEN [resp |-> RespondNotInitialized(r0), invoked |-> {}]
  ELSE
    LET r == [r0 EXCEPT !.role = cur_role, !.master_addrs = TRUE]
    IN IF l.leader
       THEN LET r1 == [r EXCEPT !.ca_cert = TRUE]
            IN IF WantsToken(authn)
               THEN [resp |-> RespondSuccess(
                                TokenResult(r1, GenerateAuthnTokenStatus(nkeys))),
                     invoked |-> {"GenerateAuthnToken"}]
               ELSE [resp |-> RespondSuccess(r1), invoked |-> {}]
       ELSE [resp |-> RespondSuccess(r), invoked |-> {}]

ConnectToMaster(t, D) ==
  /\ pc[t] = "locked"
  /\ call[t] = "ConnectToMaster"
  /\ \E authn \in D.authns :
       LET o == ConnectHandler(lease[t], resp[t], role, authn, tsk_count)
       IN /\ resp' = [resp EXCEPT ![t] = o.resp]
          /\ invoked' = [invoked EXCEPT ![t] = o.invoked]
          /\ req' = [req EXCEPT ![t] =
               IF InitGate(lease[t]) /\ lease[t].leader
               THEN [@ EXCEPT !.authn = authn] ELSE @]
  /\ pc' = [pc EXCEPT ![t] = "ret"]
  /\ UNCHANGED <<env, readers, stores, call, lease, ts_desc>>

\* ------------------------------------------------------------- Next
Service(t, D) ==
  \/ \E c \in D.calls : Begin(t, c)
  \/ TSHeartbeatResolve(t, D)
  \/ TSHeartbeatFinish(t, D)
  \/ TableCall(t, D)
  \/ GetTabletLocations(t, D)
  \/ GetMasterRegistration(t, D)
  \/ ConnectToMaster(t, D)
  \/ Ping(t)
  \/ ListTabletServers(t)
  \/ ListMasters(t, D)
  \/ Return(t)

Transition ==
  \/ CatalogInit
  \/ ElectionChange
  \/ TransitionAcquire
  \/ TransitionComplete

Environment ==
  \/ Transition
  \/ Tick
  \/ RotateKey

\* One service thread, every request.
Next == Environment \/ \E t \in Threads : Service(t, FullDomain)

Spec == Init /\ [][Next]_vars

\* Two concurrent service threads and the leadership transition.
InitConc == Init /\ propagate_tsk = FALSE

NextConc == Transition \/ \E t \in AllThreads : Service(t, LeanDomain)

SpecConc == InitConc /\ [][NextConc]_vars

\* Two tablet servers heartbeating to two concurrent service threads.
PairWorkers == Workers \cup {"w2"}

PairDomain ==
  [calls |-> TableOps \cup {"GetTabletLocations", "TSHeartbeat",
                            "GetMasterRegistration", "ConnectToMaster"},
   ids |-> PairWorkers,
   regs |-> {"regA", "none"},
   lives |-> {MaxLive},
   reports |-> {"none"},
   csrs |-> {"none"},
   wms |-> {-1},
   tables |-> Tables,
   faults |-> {"none"},
   idlists |-> {<<"tb1">>},
   authns |-> {"token"}]

NextPair ==
  \/ Transition
  \/ Tick
  \/ \E t \in AllThreads : Service(t, PairDomain)

SpecPair == InitConc /\ [][NextPair]_vars

\* ------------------------------------------------------------ properties
\* The handler of thread t answers in this step (from the constructed lock).
Answers(t) == pc[t] = "locked" /\ pc'[t] = "ret"

\* C1: a table call or GetTabletLocations whose lock recorded an initialized
\* catalog manager that is not the leader is answered with the NOT_THE_LEADER
\* error, calls no catalog operation and leaves the catalog as it was.
C1_NotLeaderNoDelegation ==
  [][\A t \in AllThreads :
       (Answers(t) /\ call[t] \in LeaderGated
          /\ lease[t].init /\ ~lease[t].leader)
       => /\ resp'[t].error = "NOT_THE_LEADER"
          /\ resp'[t].sent = 1
          /\ invoked'[t] = {}
          /\ ~resp'[t].payload
          /\ resp'[t].locations = <<>> /\ resp'[t].errors = <<>>
          /\ tables' = tables /\ tablets' = tablets]_vars

\* A follower that holds a table has refused a leader-gated call.
C1_Witness ==
  \E t \in AllThreads :
    /\ pc[t] = "ret" /\ call[t] = "DeleteTable"
    /\ lease[t].init /\ ~lease[t].leader /\ ~leader
    /\ resp[t].error = "NOT_THE_LEADER"
    /\ tables # {}

\* The operations only a leader may run; ExportKeys is one of them unless
\* the test flag lets followers propagate keys.
LeaderOnlyWork ==
  TableOps \cup {"GetTabletLocations", "ProcessTabletReport", "SignServerCSR"}
    \cup (IF propagate_tsk THEN {} ELSE {"ExportKeys"})

\* C2: with two concurrent service threads and the leadership transition, a
\* step that runs leader-only work is taken by a thread that holds the lock
\* in shared mode, whose lock recorded leader, while the master is leader
\* before and after the step; and leadership never changes while any thread
\* holds the lock.
C2_LeaderOnlyWorkUnderLease ==
  [][/\ \A t \in AllThreads :
          (invoked'[t] \ invoked[t]) \cap LeaderOnlyWork # {}
          => /\ lease[t].held /\ lease[t].leader
             /\ t \in readers /\ t \in readers'
             /\ initialized /\ leader /\ leader'
     /\ readers # {} => leader' = leader
     /\ \A t \in AllThreads :
          lease'[t].held /\ lease'[t].leader => leader']_vars

\* A leader has processed a tablet report while the other thread holds the
\* lock too and a transition, the role already changed, waits for both.
C2_Witness ==
  \E t \in AllThreads :
    /\ pc[t] = "ret" /\ "ProcessTabletReport" \in invoked[t]
    /\ readers = AllThreads
    /\ writer = "waiting" /\ role = "FOLLOWER" /\ leader

\* C3: a thread that is not inside a handler holds no lock, whichever way
\* its handlers returned; only threads inside a gated handler hold it; and a
\* waiting transition can acquire once every thread is out of its handler.
C3_LeaseReleasedOnReturn ==
  /\ \A t \in AllThreads : Free(t) => t \notin readers /\ ~lease[t].held
  /\ \A t \in readers : pc[t] \in {"locked", "hb_soft", "ret"} /\ lease[t].held
  /\ ((\A t \in AllThreads : Free(t)) /\ writer = "waiting")
       => ENABLED TransitionAcquire

\* Both threads have returned from handlers, one of which registered a
\* tablet server, and a transition waits for the lock nobody holds.
C3_Witness ==
  /\ \A t \in AllThreads : pc[t] = "done"
  /\ writer = "waiting" /\ readers = {}
  /\ registry # {}

\* Thread t takes the first step of TSHeartbeat (lines 136-180).
Resolves(t) ==
  pc[t] = "locked" /\ pc'[t] # "locked" /\ call[t] = "TSHeartbeat"

\* Thread t takes the second step of TSHeartbeat (lines 182-223).
Finishes(t) == pc[t] = "hb_soft" /\ pc'[t] = "ret"

\* C4: a heartbeat without registration, handled on an initialized master
\* for a tablet server the registry does not hold (no descriptor is ever
\* removed, so it never held one), is answered with RespondSuccess,
\* needs_reregister and needs_full_tablet_report = the master's leadership,
\* and leaves the registry as it was.
C4_UnknownServerMustReregister ==
  [][/\ \A w \in Workers : Registered(w) => Registered(w)'
     /\ \A t \in AllThreads, w \in Workers :
          (Resolves(t) /\ lease[t].init /\ ~Registered(w)
             /\ req'[t].ts = w /\ req'[t].reg = "none")
          => /\ pc'[t] = "ret"
             /\ resp'[t].transport = "success" /\ resp'[t].sent = 1
             /\ resp'[t].error = "none"
             /\ resp'[t].needs_reregister = TRUE
             /\ resp'[t].needs_full = (initialized /\ leader)
             /\ resp'[t].needs_full = lease[t].leader
             /\ registry' = registry]_vars

\* A follower has told an unknown tablet server to register again and has
\* not asked it for a full tablet report.
C4_Witness ==
  \E t \in AllThreads :
    /\ pc[t] = "ret" /\ call[t] = "TSHeartbeat"
    /\ req[t].ts \in Workers /\ req[t].reg = "none" /\ ~req[t].known
    /\ ~Registered(req[t].ts)
    /\ resp[t].needs_reregister /\ resp[t].needs_full = FALSE
    /\ resp[t].leader_master = FALSE

\* C5: a heartbeat without registration for a registered tablet server gets
\* past the lookup, and then sets the descriptor's heartbeat time to the
\* current time and its live-replica count to the request's, and leaves its
\* registration as it was.
C5_BareHeartbeatRefreshesSoftState ==
  [][\A t \in AllThreads, w \in Workers :
       /\ (Resolves(t) /\ Registered(w)
             /\ req'[t].ts = w /\ req'[t].reg = "none")
          => pc'[t] = "hb_soft" /\ ts_desc'[t] = w /\ registry' = registry
       /\ (Finishes(t) /\ ts_desc[t] = w /\ req[t].reg = "none")
          => /\ Cardinality(Descs(registry', w)) = 1
             /\ DescOf(registry', w).hb = now
             /\ DescOf(registry', w).live = req'[t].live
             /\ DescOf(registry', w).reg = DescOf(registry, w).reg]_vars

\* A heartbeat without registration has raised a registered tablet server's
\* heartbeat time and live-replica count.
C5_Witness ==
  \E t \in AllThreads :
    /\ pc[t] = "ret" /\ call[t] = "TSHeartbeat"
    /\ req[t].ts \in Workers /\ req[t].reg = "none" /\ req[t].known
    /\ req[t].live = MaxLive /\ now = MaxTime
    /\ \E d \in registry :
         d.id = req[t].ts /\ d.hb = MaxTime /\ d.live = MaxLive
           /\ d.reg = "regB"

\* C6: a heartbeat with a registration for an instance the registry already
\* holds leaves one descriptor for it, with the registration of the request
\* and a live-replica count of 0; the rest of the heartbeat then sets the
\* count to the request's, whatever it was before the call.
C6_ReRegistrationReplaces ==
  [][\A t \in AllThreads, w \in Workers :
       /\ (Resolves(t) /\ Registered(w)
             /\ req'[t].ts = w /\ req'[t].reg # "none")
          => /\ pc'[t] = "hb_soft" /\ ts_desc'[t] = w
             /\ Cardinality(Descs(registry', w)) = 1
             /\ DescOf(registry', w).reg = req'[t].reg
             /\ DescOf(registry', w).live = 0
       /\ (Finishes(t) /\ ts_desc[t] = w /\ req[t].reg # "none")
          => /\ Cardinality(Descs(registry', w)) = 1
             /\ DescOf(registry', w).live = req'[t].live
             /\ DescOf(registry', w).reg = req[t].reg]_vars

\* A registered tablet server has registered again with another
\* registration and a live-replica count of 0.
C6_Witness ==
  \E t \in AllThreads :
    /\ pc[t] = "ret" /\ call[t] = "TSHeartbeat"
    /\ req[t].ts \in Workers /\ req[t].reg = "regB" /\ req[t].known
    /\ req[t].live = 0
    /\ Descs(registry, req[t].ts) =
         {[id |-> req[t].ts, reg |-> "regB", hb |-> now, live |-> 0]}

\* C7: every response of TSHeartbeat carries the master's instance and the
\* leader_master flag.
C7_EveryHeartbeatResponseIdentifies ==
  \A t \in AllThreads :
    (call[t] = "TSHeartbeat" /\ resp[t].sent > 0)
    => resp[t].instance /\ resp[t].leader_master \in BOOLEAN

\* C8: a gated call whose lock recorded a catalog manager that is not
\* running is answered, in its first step, with the
\* CATALOG_MANAGER_NOT_INITIALIZED error and nothing else, calls no
\* collaborator, resolves no descriptor and leaves registry and catalog as
\* they were.
C8_NotInitializedAborts ==
  [][\A t \in AllThreads :
       (pc[t] = "locked" /\ pc'[t] # "locked" /\ ~lease[t].init)
       => /\ call[t] \in Gated
          /\ pc'[t] = "ret"
          /\ resp'[t] = [EmptyResp EXCEPT
                           !.sent = 1, !.transport = "success",
                           !.error = "CATALOG_MANAGER_NOT_INITIALIZED",
                           !.status = "ServiceUnavailable",
                           !.instance = (call[t] = "GetMasterRegistration")]
          /\ invoked'[t] = {} /\ ts_desc'[t] = "none"
          /\ registry' = registry /\ tables' = tables
          /\ tablets' = tablets]_vars

\* A heartbeat has been refused by a master whose catalog manager has since
\* finished starting.
C8_Witness ==
  \E t \in AllThreads :
    /\ pc[t] = "ret" /\ call[t] = "TSHeartbeat" /\ ~lease[t].init
    /\ resp[t].error = "CATALOG_MANAGER_NOT_INITIALIZED"
    /\ initialized /\ registry = {}

\* C9 as stated: on an initialized master, ConnectToMaster attaches a token
\* when the master is leader and the caller did not authenticate by token,
\* none when the caller did, and neither CA certificate nor token when the
\* master is not leader.
C9_Original ==
  \A t \in AllThreads :
    (pc[t] = "ret" /\ call[t] = "ConnectToMaster" /\ lease[t].init)
    => /\ (lease[t].leader /\ req[t].authn = "kerberos")
            => resp[t].authn_token
       /\ (lease[t].leader /\ req[t].authn = "token")
            => ~resp[t].authn_token
       /\ ~lease[t].leader => ~resp[t].ca_cert /\ ~resp[t].authn_token

\* C9 amended: ... attaches a token when the master is leader, the caller
\* did not authenticate by token and GenerateAuthnToken succeeds; none when
\* the caller authenticated by token; neither CA certificate nor token when
\* the master is not leader.
C9_CredentialPolicy ==
  [][\A t \in AllThreads :
       (Answers(t) /\ call[t] = "ConnectToMaster" /\ lease[t].init)
       => /\ (lease[t].leader /\ req'[t].authn = "kerberos"
                 /\ GenerateAuthnTokenStatus(tsk_count) = "OK")
               => resp'[t].authn_token /\ resp'[t].ca_cert
          /\ (lease[t].leader /\ req'[t].authn = "token")
               => ~resp'[t].authn_token /\ resp'[t].ca_cert
          /\ ~lease[t].leader
               => ~resp'[t].ca_cert /\ ~resp'[t].authn_token
          /\ resp'[t].transport = "success"]_vars

\* A leader has attached a token for a caller that authenticated otherwise.
C9_Witness ==
  \E t \in AllThreads :
    /\ pc[t] = "ret" /\ call[t] = "ConnectToMaster"
    /\ lease[t].leader /\ req[t].authn = "kerberos"
    /\ resp[t].authn_token /\ resp[t].ca_cert

C11_TableErrorsNormalized ==
  [][\A t \in AllThreads :
       (Answers(t) /\ call[t] \in TableOps /\ lease[t].init /\ lease[t].leader)
       => LET d == CatalogOp(call[t], req'[t].table, req'[t].fault, tables)
          IN /\ resp'[t].transport = "success" /\ resp'[t].sent = 1
             /\ invoked'[t] = {call[t]}
             /\ d.status # "OK"
                  => /\ resp'[t].error # "none"
                     /\ resp'[t].status = d.status
                     /\ resp'[t].error =
                          IF d.error # "none" THEN d.error ELSE "UNKNOWN_ERROR"
                     /\ ~resp'[t].payload
             /\ d.status = "OK"
                  => resp'[t].error = "none" /\ resp'[t].status = "none"]_vars

\* A leader has answered DeleteTable of a missing table with the error of
\* the catalog manager.
C11_Witness ==
  \E t \in AllThreads :
    /\ pc[t] = "ret" /\ call[t] = "DeleteTable" /\ lease[t].leader
    /\ req[t].fault = "none" /\ req[t].table \notin tables
    /\ resp[t].transport = "success"
    /\ resp[t].error = "TABLE_NOT_FOUND" /\ resp[t].status = "NotFound"

\* C12: GetTabletLocations on a leader answers once with RespondSuccess,
\* with the requested ids the catalog manager located, in request order, as
\* locations, and the requested ids it did not, in request order, as
\* errors; together as many as the ids requested.
C12_TabletsLocatedIndependently ==
  [][\A t \in AllThreads :
       (Answers(t) /\ call[t] = "GetTabletLocations"
          /\ lease[t].init /\ lease[t].leader)
       => LET ids == req'[t].ids
              Located(id) == GetTabletLocationsStatus(id, tablets) = "OK"
              Missing(id) == ~Located(id)
          IN /\ resp'[t].transport = "success" /\ resp'[t].sent = 1
             /\ resp'[t].error = "none"
             /\ resp'[t].locations = SelectSeq(ids, Located)
             /\ resp'[t].errors = SelectSeq(ids, Missing)
             /\ Len(resp'[t].locations) + Len(resp'[t].errors) = Len(ids)
             /\ tablets' = tablets]_vars

\* A leader has located the second tablet id of a request after failing to
\* locate the first.
C12_Witness ==
  \E t \in AllThreads :
    /\ pc[t] = "ret" /\ call[t] = "GetTabletLocations"
    /\ Len(req[t].ids) = 2
    /\ req[t].ids[1] \notin tablets /\ req[t].ids[2] \in tablets
    /\ resp[t].locations = <<req[t].ids[2]>>
    /\ resp[t].errors = <<req[t].ids[1]>>
    /\ resp[t].transport = "success"

\* Thread t runs ListTabletServers in this step.
Lists(t) == Free(t) /\ pc'[t] = "ret" /\ call'[t] = "ListTabletServers"

\* C13: a thread outside a handler can always run ListTabletServers,
\* whatever the state of the catalog manager, of the leader lock and of the
\* other thread; the call answers once with RespondSuccess and one entry
\* (identity, registration, time since heartbeat) per registered tablet
\* server, takes no lock, invokes nothing that changes state and leaves
\* registry, catalog, lock and leader status as they were.
C13_ListTabletServersReadOnly ==
  [][\A t \in AllThreads :
       /\ Free(t) => ENABLED ListTabletServers(t)
       /\ Lists(t)
          => /\ resp'[t].transport = "success" /\ resp'[t].sent = 1
             /\ resp'[t].error = "none"
             /\ \A w \in Instances :
                  Cardinality({e \in resp'[t].servers : e.id = w})
                    = IF Registered(w) THEN 1 ELSE 0
             /\ \A e \in resp'[t].servers :
                  \E d \in registry :
                    e.id = d.id /\ e.reg = d.reg /\ e.millis = now - d.hb
             /\ registry' = registry /\ tables' = tables
             /\ tablets' = tablets
             /\ readers' = readers /\ t \notin readers'
             /\ lease' = lease /\ ~lease'[t].held
             /\ writer' = writer /\ leader' = leader /\ role' = role
             /\ invoked'[t] = {}]_vars

\* ListTabletServers has listed the one registered tablet server while the
\* other thread is inside a heartbeat and a leadership transition waits for
\* the lock.
C13_Witness ==
  \E t, u \in AllThreads :
    /\ pc[t] = "ret" /\ call[t] = "ListTabletServers"
    /\ Cardinality(resp[t].servers) = 1
    /\ \E e \in resp[t].servers : e.id \in Workers
    /\ pc[u] = "hb_soft" /\ u \in readers /\ t \notin readers
    /\ writer = "waiting"

\* C14: every response of GetMasterRegistration carries the instance id;
\* the response of the failed gate carries neither role nor registration;
\* past the gate, which only asks for an initialized catalog manager, the
\* role is attached on a follower as on a leader, and the registration
\* whenever Master::GetMasterRegistration returned it.
C14_RegistrationAlwaysIdentifies ==
  [][\A t \in AllThreads :
       /\ (call'[t] = "GetMasterRegistration" /\ resp'[t].sent > 0)
          => resp'[t].instance
       /\ (Answers(t) /\ call[t] = "GetMasterRegistration")
          => /\ resp'[t].instance /\ resp'[t].sent = 1
             /\ resp'[t].transport = "success"
             /\ ~lease[t].init
                  => /\ resp'[t].error = "CATALOG_MANAGER_NOT_INITIALIZED"
                     /\ resp'[t].role = "unset" /\ ~resp'[t].registration
             /\ lease[t].init
                  => /\ resp'[t].role = role
                     /\ resp'[t].registration = (req'[t].fault = "none")
                     /\ resp'[t].error =
                          IF req'[t].fault = "none" THEN "none"
                          ELSE "UNKNOWN_ERROR"]_vars

\* A follower has answered GetMasterRegistration with its instance id, its
\* role and its registration.
C14_Witness ==
  \E t \in AllThreads :
    /\ pc[t] = "ret" /\ call[t] = "GetMasterRegistration"
    /\ lease[t].init /\ ~lease[t].leader
    /\ resp[t].instance /\ resp[t].role = "FOLLOWER"
    /\ resp[t].registration /\ resp[t].error = "none"

\* C15: every response of ConnectToMaster with the role LEADER carries the
\* CA certificate.
C15_LeaderRoleCarriesCACert ==
  \A t \in AllThreads :
    (call[t] = "ConnectToMaster" /\ resp[t].sent > 0
       /\ resp[t].role = "LEADER")
    => resp[t].ca_cert

\* C16: a handler responds exactly once: nothing is sent before its last
\* step, that step sends one RespondSuccess or RespondFailure (the gate's
\* error response being a RespondSuccess), the handler returns only after
\* it, and between the response and the return it takes no step; its steps
\* run in order, none a second time.
C16_ExactlyOneResponse ==
  [][\A t \in AllThreads :
       /\ resp[t].sent <= 1 /\ resp'[t].sent <= 1
       /\ pc[t] \in {"locked", "hb_soft"}
            => /\ resp[t].sent = 0 /\ resp[t].transport = "none"
               /\ pc'[t] \in {pc[t], "hb_soft", "ret"}
               /\ pc[t] = "hb_soft" => pc'[t] # "locked"
       /\ pc[t] = "ret"
            => /\ resp[t].sent = 1
               /\ resp[t].transport \in {"success", "failure"}
               /\ \/ pc'[t] = "ret" /\ resp'[t] = resp[t]
                     /\ invoked'[t] = invoked[t]
                  \/ pc'[t] = "done" /\ registry' = registry
                     /\ tables' = tables /\ tablets' = tablets
       /\ (pc[t] # "done" /\ pc'[t] = "done") => pc[t] = "ret"
       /\ (pc[t] # "ret" /\ pc'[t] = "ret")
            => resp'[t].sent = 1 /\ resp[t].sent = 0]_vars

\* A heartbeat whose CSR could not be signed has been answered once, with
\* RespondFailure, and no key was exported after it.
C16_Witness ==
  \E t \in AllThreads :
    /\ pc[t] = "ret" /\ call[t] = "TSHeartbeat"
    /\ resp[t].sent = 1 /\ resp[t].transport = "failure"
    /\ "SignServerCSR" \in invoked[t] /\ "ExportKeys" \notin invoked[t]
    /\ req[t].csr = "bad"

\* C17: the first step of a heartbeat either resolves a descriptor, by
\* registration or by lookup, or answers (failed gate, failed registration,
\* failed lookup, needs_reregister) and leaves every descriptor as it was;
\* the second step, which runs exactly for a resolved descriptor, sets its
\* heartbeat time and live-replica count, on a follower as on a leader,
\* also when the call then ends with RespondFailure for its tablet report
\* or its CSR.
C17_SoftStateRefreshedIffResolved ==
  [][\A t \in AllThreads :
       /\ (Resolves(t) /\ pc'[t] = "ret")
          => /\ registry' = registry /\ ts_desc'[t] = "none"
             /\ \/ resp'[t].error = "CATALOG_MANAGER_NOT_INITIALIZED"
                \/ resp'[t].transport = "failure"
                \/ resp'[t].needs_reregister
       /\ (Resolves(t) /\ pc'[t] # "ret")
          => /\ pc'[t] = "hb_soft" /\ ts_desc'[t] = req'[t].ts
             /\ Cardinality(Descs(registry', ts_desc'[t])) = 1
             /\ invoked'[t] \in {{"RegisterTS"}, {"LookupTS"}}
             /\ resp'[t].sent = 0
       /\ Finishes(t)
          => /\ Cardinality(Descs(registry', ts_desc[t])) = 1
             /\ DescOf(registry', ts_desc[t]).hb = now
             /\ DescOf(registry', ts_desc[t]).live = req'[t].live
             /\ resp'[t].transport \in {"success", "failure"}
             /\ resp'[t].transport = "failure"
                  => /\ lease[t].leader
                     /\ invoked'[t] \cap {"ProcessTabletReport",
                                          "SignServerCSR"} # {}]_vars

\* A heartbeat whose tablet report could not be processed has left the
\* tablet server's live-replica count at the request's, which is not the
\* count of a registration.
C17_Witness ==
  \E t \in AllThreads :
    /\ pc[t] = "ret" /\ call[t] = "TSHeartbeat"
    /\ resp[t].transport = "failure" /\ req[t].report = "bad"
    /\ "ProcessTabletReport" \in invoked[t]
    /\ req[t].live = MaxLive
    /\ DescOf(registry, req[t].ts).live = MaxLive
    /\ DescOf(registry, req[t].ts).hb = now

\* C18: a registered tablet server stays registered in every step of every
\* call and of the environment, and a heartbeat without registration for it
\* is never answered with needs_reregister: it resolves the descriptor.
C18_RegisteredForever ==
  [][/\ \A w \in Instances : Registered(w) => Registered(w)'
     /\ Cardinality(registry') >= Cardinality(registry)
     /\ \A t \in AllThreads, w \in Workers :
          (Resolves(t) /\ Registered(w) /\ req'[t].ts = w
             /\ req'[t].reg = "none")
          => /\ ~resp'[t].needs_reregister /\ resp'[t].needs_full = "unset"
             /\ pc'[t] = "hb_soft" /\ invoked'[t] = {"LookupTS"}
     /\ \A t \in AllThreads :
          resp'[t].needs_reregister
          => ~req'[t].known /\ Descs(registry', req'[t].ts) = {}]_vars

\* A tablet server registered in an earlier call has sent a heartbeat
\* without registration to a follower and was not told to register again.
C18_Witness ==
  \E t \in AllThreads :
    /\ pc[t] = "ret" /\ call[t] = "TSHeartbeat"
    /\ req[t].ts \in Workers /\ req[t].reg = "none" /\ req[t].known
    /\ ~lease[t].leader
    /\ resp[t].transport = "success" /\ ~resp[t].needs_reregister
    /\ Registered(req[t].ts)

\* The soft state the registry holds for a tablet server.
SoftState(reg_set, w) ==
  IF Descs(reg_set, w) = {} THEN <<>>
  ELSE <<DescOf(reg_set, w).hb, DescOf(reg_set, w).live>>

\* C19: a step that changes the heartbeat time or the live-replica count of
\* a registered tablet server is a step of TSHeartbeat, taken by one thread
\* for a request with the instance of that tablet server; steps of every
\* other call, of a heartbeat of another tablet server, of the clock and of
\* the leadership transition leave them as they were.
C19_SoftStateOnlyByOwnHeartbeat ==
  [][\A w \in PairWorkers :
       (Registered(w) /\ SoftState(registry', w) # SoftState(registry, w))
       => \E t \in AllThreads :
            /\ call[t] = "TSHeartbeat"
            /\ pc[t] \in {"locked", "hb_soft"} /\ pc'[t] # pc[t]
            /\ req'[t].ts = w
            /\ \A u \in AllThreads \ {t} : pc'[u] = pc[u]
            /\ \A v \in PairWorkers \ {w} :
                 Descs(registry', v) = Descs(registry, v)]_vars

\* One thread has finished a heartbeat of one tablet server while the other
\* thread is inside a heartbeat of another, whose soft state is still that
\* of its registration although the clock has advanced.
C19_Witness ==
  \E t, u \in AllThreads :
    /\ pc[t] = "ret" /\ call[t] = "TSHeartbeat" /\ req[t].ts = "w1"
    /\ pc[u] = "hb_soft" /\ ts_desc[u] = "w2"
    /\ now = MaxTime
    /\ SoftState(registry, "w1") = <<MaxTime, MaxLive>>
    /\ SoftState(registry, "w2") = <<0, 0>>

\* C20: the response of a successful heartbeat carries exactly the keys of
\* the verifier above the request's watermark when the request has one and
\* the master is leader or the flag
\* master_non_leader_masters_propagate_tsk is set, and no keys otherwise; a
\* follower processes no tablet report and signs no CSR, with the flag set
\* or not, and with the flag off its response carries no keys, no signed
\* certificate, no CA certificate and no tablet report result.
C20_KeyExportPolicy ==
  [][\A t \in AllThreads :
       (Finishes(t) /\ resp'[t].transport = "success")
       => LET exports == /\ lease[t].leader \/ propagate_tsk
                         /\ req'[t].wm >= 0
          IN /\ exports
                  => /\ resp'[t].tsks = {k \in 1..tsk_count : k > req'[t].wm}
                     /\ "ExportKeys" \in invoked'[t]
             /\ ~exports
                  => resp'[t].tsks = {} /\ "ExportKeys" \notin invoked'[t]
             /\ ~lease[t].leader
                  => /\ invoked'[t] \cap {"ProcessTabletReport",
                                          "SignServerCSR"} = {}
                     /\ ~resp'[t].tablet_report /\ ~resp'[t].signed_cert
                     /\ ~resp'[t].ca_cert /\ tablets' = tablets
             /\ (~lease[t].leader /\ ~propagate_tsk)
                  => resp'[t].tsks = {} /\ invoked'[t] \subseteq
                                             {"RegisterTS", "LookupTS"}]_vars

\* A follower with the flag set has exported a key to a tablet server whose
\* watermark is below it.
C20_Witness ==
  \E t \in AllThreads :
    /\ pc[t] = "ret" /\ call[t] = "TSHeartbeat"
    /\ ~lease[t].leader /\ propagate_tsk
    /\ req[t].wm = 0 /\ tsk_count = MaxKeys
    /\ resp[t].tsks = {k \in 1..MaxKeys : k > 0}
    /\ resp[t].transport = "success" /\ ~resp[t].tablet_report

\* C21: on a leader the last step of a heartbeat processes the tablet
\* report, then signs the CSR, then exports keys, and ends at the first
\* failure with RespondFailure: after a failed tablet report no CSR is
\* signed and no key exported; after a failed CSR the tablet report, if
\* any, has been processed, no key is exported and no certificate is in the
\* response; with no failure every step the request asks for has run and
\* the call ends with RespondSuccess.
C21_LeaderStepsInOrder ==
  [][\A t \in AllThreads :
       (Finishes(t) /\ lease[t].leader)
       => LET report == req'[t].report
              csr == req'[t].csr
              ran == invoked'[t] \ invoked[t]
          IN /\ report = "bad"
                  => /\ resp'[t].transport = "failure" /\ resp'[t].sent = 1
                     /\ ran = {"ProcessTabletReport"}
                     /\ csr = "none" /\ req'[t].wm = -1
                     /\ ~resp'[t].signed_cert /\ ~resp'[t].ca_cert
                     /\ resp'[t].tsks = {}
             /\ (report # "bad" /\ csr = "bad")
                  => /\ resp'[t].transport = "failure" /\ resp'[t].sent = 1
                     /\ ran = {"SignServerCSR"} \cup
                              (IF report = "good"
                               THEN {"ProcessTabletReport"} ELSE {})
                     /\ tablets' = ProcessTabletReport(tablets, report)
                     /\ req'[t].wm = -1
                     /\ ~resp'[t].signed_cert /\ ~resp'[t].ca_cert
                     /\ resp'[t].tsks = {}
             /\ (report # "bad" /\ csr # "bad")
                  => /\ resp'[t].transport = "success" /\ resp'[t].sent = 1
                     /\ ("ProcessTabletReport" \in ran) = (report = "good")
                     /\ resp'[t].tablet_report = (report = "good")
                     /\ ("SignServerCSR" \in ran) = (csr = "good")
                     /\ resp'[t].signed_cert = (csr = "good")
                     /\ ("ExportKeys" \in ran) = (req'[t].wm >= 0)]_vars

\* A leader has processed the tablet report of a heartbeat, failed to sign
\* its CSR and answered with RespondFailure without exporting a key.
C21_Witness ==
  \E t \in AllThreads :
    /\ pc[t] = "ret" /\ call[t] = "TSHeartbeat" /\ lease[t].leader
    /\ req[t].report = "good" /\ req[t].csr = "bad"
    /\ resp[t].transport = "failure" /\ ~resp[t].signed_cert
    /\ ReportedTablet \in tablets
    /\ {"ProcessTabletReport", "SignServerCSR"} \subseteq invoked[t]
    /\ "ExportKeys" \notin invoked[t] /\ tsk_count = MaxKeys

====
